---- MODULE Spec2Model ----
(***************************************************************************)
(* Speed-test client and server (src/client.py, src/server.py).            *)
(*                                                                         *)
(* The client discovers a server through UDP Offer broadcasts, then        *)
(* speed_test starts one thread per TCP and per UDP transfer, joins them   *)
(* all and averages the records they appended to connection_stats.  The    *)
(* server accepts TCP connections and UDP requests in one loop and serves  *)
(* each from its own handler thread.                                       *)
(*                                                                         *)
(* Time is counted in whole seconds; a speed is kept as the exact fraction *)
(* num/den (bits * 1000 over milliseconds) so that no rounding is added.   *)
(* A datagram is its leading bytes followed by a count of filler bytes.    *)
(* A 32-bit magic value is kept as its four big-endian bytes.              *)
(***************************************************************************)
EXTENDS Integers, Sequences, FiniteSets, TLC

(***************************************************************************)
(* Program constants.                                                      *)
(***************************************************************************)
\* client.py
max_connections == 10
MAGIC_COOKIE == <<171, 205, 220, 186>>
MESSAGE_TYPE_OFFER == 2
MESSAGE_TYPE_REQUEST == 3
MESSAGE_TYPE_PAYLOAD == 4
CLIENT_BUFFER_SIZE == 1024
retries == 3
PAYLOAD_HEADER == 21
UDP_SOCKET_TIMEOUT == 5
UDP_TOTAL_TIMEOUT == 30
OFFER_SLICE == 10

\* server.py
MAGIC_NUMBER == <<171, 205, 220, 186>>
OFFER_MSG_TYPE == 2
REQUEST_MSG_TYPE == 3
PAYLOAD_MSG_TYPE == 4
SERVER_BUFFER_SIZE == 4096
LISTEN_BACKLOG == 5
FILLER_X == 88

(***************************************************************************)
(* Bounds of the model.                                                    *)
(***************************************************************************)
MaxThreads == 2
MaxInbox == 1
MaxOffers == 3
TickLen == 10

Min(a, b) == IF a < b THEN a ELSE b

(***************************************************************************)
(* struct.pack / struct.unpack with the '!' (network, big-endian) layout.  *)
(***************************************************************************)
RECURSIVE BigEndian(_, _)
BigEndian(x, n) ==
    IF n = 0 THEN <<>> ELSE Append(BigEndian(x \div 256, n - 1), x % 256)

\* The unsigned value of the first n bytes of bs, most significant first.
RECURSIVE FromBigEndianPrefix(_, _)
FromBigEndianPrefix(bs, n) ==
    IF n = 0 THEN 0 ELSE FromBigEndianPrefix(bs, n - 1) * 256 + bs[n]

FromBigEndian(bs) == FromBigEndianPrefix(bs, Len(bs))

\* A datagram: explicit leading bytes, then `fill` filler bytes.
Dgram(bs, fill) == [bytes |-> bs, fill |-> fill]
DLen(d) == Len(d.bytes) + d.fill

\* data[:n] as a byte sequence (filler bytes are b"X").
Slice(d, n) ==
    [k \in 1..Min(n, DLen(d)) |->
        IF k <= Len(d.bytes) THEN d.bytes[k] ELSE FILLER_X]

\* data[n:] is only ever measured (len(data[21:])).
LenFrom(d, n) == IF DLen(d) > n THEN DLen(d) - n ELSE 0

\* recvfrom(bufsize): a longer datagram is cut to bufsize bytes.
RecvFrom(d, bufsize) ==
    IF DLen(d) <= bufsize THEN d
    ELSE IF Len(d.bytes) >= bufsize
         THEN Dgram(SubSeq(d.bytes, 1, bufsize), 0)
         ELSE Dgram(d.bytes, bufsize - Len(d.bytes))

\* struct.pack('!IBHH', magic, type, udp_port, tcp_port)
PackOffer(magic, type, udp_port, tcp_port) ==
    Dgram(magic \o BigEndian(type, 1) \o BigEndian(udp_port, 2)
                \o BigEndian(tcp_port, 2), 0)

\* struct.unpack('!IBHH', bs): needs exactly 9 bytes, else struct.error.
UnpackOfferOk(bs) == Len(bs) = 9
UnpackOffer(bs) ==
    [magic_cookie |-> SubSeq(bs, 1, 4),
     message_type |-> bs[5],
     udp_port     |-> FromBigEndian(SubSeq(bs, 6, 7)),
     tcp_port     |-> FromBigEndian(SubSeq(bs, 8, 9))]

\* struct.pack('!IBQ', magic, type, file_size)
PackRequest(magic, type, size) ==
    Dgram(magic \o BigEndian(type, 1) \o BigEndian(size, 8), 0)

\* struct.unpack('!IBQ', data): needs exactly 13 bytes, else struct.error.
UnpackRequestOk(d) == DLen(d) = 13
UnpackRequest(d) ==
    LET bs == Slice(d, 13) IN
    [magic_number |-> SubSeq(bs, 1, 4),
     msg_type     |-> bs[5],
     file_size    |-> FromBigEndian(SubSeq(bs, 6, 13))]

\* struct.pack('!IBQQ', magic, type, total, seg) + b"X" * BUFFER_SIZE
PackPayload(magic, type, total, seg, fill) ==
    Dgram(magic \o BigEndian(type, 1) \o BigEndian(total, 8)
                \o BigEndian(seg, 8), fill)

\* struct.unpack('!IBQQ', data[:21]) on a datagram of at least 21 bytes.
\* (the 21-byte slice is bound once and shared by the four fields)
UnpackPayload(d) ==
    LET Fields(bs) ==
            [magic_cookie    |-> SubSeq(bs, 1, 4),
             message_type    |-> bs[5],
             total_segments  |-> FromBigEndian(SubSeq(bs, 6, 13)),
             current_segment |-> FromBigEndian(SubSeq(bs, 14, 21))]
    IN  CHOOSE h \in {Fields(bs) : bs \in {Slice(d, PAYLOAD_HEADER)}} : TRUE

(***************************************************************************)
(* f"{file_size}\n".encode() and int(request.decode().strip()).            *)
(***************************************************************************)
NEWLINE == 10
ASCII_ZERO == 48

RECURSIVE Decimal(_)
Decimal(n) ==
    IF n < 10 THEN <<ASCII_ZERO + n>>
    ELSE Append(Decimal(n \div 10), ASCII_ZERO + (n % 10))

EncodeSizeRequest(size) == Append(Decimal(size), NEWLINE)

RECURSIVE Strip(_)
Strip(s) ==
    IF Len(s) > 0 /\ s[Len(s)] = NEWLINE THEN Strip(SubSeq(s, 1, Len(s) - 1))
    ELSE s

IsDecimal(s) ==
    Len(s) > 0 /\ \A k \in 1..Len(s) : s[k] \in ASCII_ZERO..(ASCII_ZERO + 9)

RECURSIVE ParseInt(_)
ParseInt(s) ==
    IF Len(s) = 0 THEN 0
    ELSE ParseInt(SubSeq(s, 1, Len(s) - 1)) * 10 + (s[Len(s)] - ASCII_ZERO)

(***************************************************************************)
(* Segment counts and measured rates.                                      *)
(***************************************************************************)
\* client.py: expected_segments = (file_size + BUFFER_SIZE - 1) // BUFFER_SIZE
ExpectedSegments(size) ==
    (size + CLIENT_BUFFER_SIZE - 1) \div CLIENT_BUFFER_SIZE

\* server.py: total_segments = file_size // BUFFER_SIZE + (1 if rest else 0)
TotalSegments(size) ==
    (size \div SERVER_BUFFER_SIZE)
        + (IF size % SERVER_BUFFER_SIZE # 0 THEN 1 ELSE 0)

\* A rate num/den, kept exact.
Rate(num, den) == [num |-> num, den |-> den]
Positive(r) == (r.num > 0 /\ r.den > 0) \/ (r.num < 0 /\ r.den < 0)

\* speed = (total_received * 8) / (elapsed_time if elapsed_time > 0 else 0.001)
TcpSpeed(total_received, elapsed_time) ==
    Rate(total_received * 8 * 1000,
         IF elapsed_time > 0 THEN elapsed_time * 1000 ELSE 1)

\* if elapsed_time == 0: elapsed_time = 0.001; speed = total * 8 / elapsed
UdpSpeed(total_received, elapsed_time) ==
    Rate(total_received * 8 * 1000,
         IF elapsed_time = 0 THEN 1 ELSE elapsed_time * 1000)

\* success_rate = (len(received_segments) / expected_segments) * 100
SuccessRate(received_segments, expected_segments) ==
    Rate(Cardinality(received_segments) * 100, expected_segments)

(***************************************************************************)
(* sum(...) / len(...) over a list of rates, exact (fractions in lowest    *)
(* terms).                                                                 *)
(***************************************************************************)
\* (intermediate values are bound once, by a quantifier over a one-element
\* set, instead of being named by LET)
RECURSIVE GCD(_, _)
GCD(a, b) ==
    IF b = 0 THEN a ELSE CHOOSE g \in {GCD(b, r) : r \in {a % b}} : TRUE

Reduce(r) ==
    CHOOSE q \in {Rate(r.num \div g, r.den \div g) :
                     g \in {GCD(r.num, r.den)}} : TRUE

AddRate(a, b) ==
    CHOOSE s \in {Reduce(Rate(x.num * y.den + y.num * x.den, x.den * y.den)) :
                     x \in {Reduce(a)}, y \in {Reduce(b)}} : TRUE

\* sum(rates): starts from 0.
RECURSIVE SumRates(_)
SumRates(rates) ==
    IF rates = <<>> THEN Rate(0, 1)
    ELSE AddRate(SumRates(SubSeq(rates, 1, Len(rates) - 1)),
                 rates[Len(rates)])

\* sum(rates) / len(rates), for a list that is not empty.
Mean(rates) ==
    CHOOSE q \in {Reduce(Rate(total.num, total.den * Len(rates))) :
                     total \in {SumRates(rates)}} : TRUE

(***************************************************************************)
(* State.                                                                  *)
(***************************************************************************)
VARIABLES
    file_size,          \* startup(): validated, > 0
    tcp_connections,    \* startup(): validated, >= 0
    udp_connections,    \* startup(): validated, >= 0
    mainPc,             \* position of the client's main thread
    mainI,              \* loop index of speed_test's current loop
    endpoint,           \* what listen_for_offers returned, or "none"
    threads,            \* speed_test's list `threads`, with each thread's locals
    semaphore,          \* permits left in the module-level Semaphore
    connection_stats,   \* the module-level list of result dicts
    summary,            \* tcp_stats / udp_stats as read after the joins
    conns,              \* TCP connections, one per (thread, attempt)
    listenQ,            \* connections completed but not yet accepted
    udpIn,              \* per client thread: datagrams queued on its UDP socket
    srvUdpQ,            \* datagrams queued on the server's UDP socket
    srvPc,              \* position of the server's main loop
    udpHandlers,        \* running handle_udp_request threads
    offerIn,            \* datagrams queued on the client's discovery socket
    offersSent,         \* Offer broadcasts sent so far
    srvPorts            \* the ports the server bound: [udp_port, tcp_port]

vars == <<file_size, tcp_connections, udp_connections, mainPc, mainI, endpoint,
          threads, semaphore, connection_stats, summary, conns, listenQ,
          udpIn, srvUdpQ, srvPc, udpHandlers, offerIn, offersSent, srvPorts>>

inputVars  == <<file_size, tcp_connections, udp_connections>>
mainVars   == <<mainPc, mainI, summary>>
offerVars  == <<endpoint, offerIn, offersSent, srvPorts>>
serverVars == <<srvPc, udpHandlers>>

ThreadIds == 1..MaxThreads
ConnIds == ThreadIds \X (0..(retries - 1))

NoConn ==
    [state |-> "none", request |-> <<>>, avail |-> 0,
     srvClosed |-> FALSE, cliClosed |-> FALSE,
     hpc |-> "none", hsize |-> 0, total_sent |-> 0, herr |-> FALSE]

\* i + 1 in Thread(target=..., args=(..., i + 1))
TransferId(i) == i + 1

NewThread(type, id) ==
    [type |-> type, transfer_id |-> id,
     pc |-> IF type = "TCP" THEN "acquire" ELSE "start",
     attempt |-> 0, total_received |-> 0, received_segments |-> {},
     elapsed |-> 0, speed |-> Rate(0, 1), success_rate |-> Rate(0, 1),
     e |-> "none"]

Terminal == {"finished", "failed"}

\* Mutant: a read-modify-write on a stale index, which overwrites the last
\* entry instead of adding one.
StatsAppendStale(stats, stat) ==
    IF Len(stats) = 0 THEN <<stat>> ELSE [stats EXCEPT ![Len(stats)] = stat]

\* connection_stats.append(stat): one atomic list append.
StatsAppend(stats, stat) == Append(stats, stat)

TcpStat(size, speed) == [type |-> "TCP", file_size |-> size, speed |-> speed]
UdpStat(size, speed, rate) ==
    [type |-> "UDP", file_size |-> size, speed |-> speed, success_rate |-> rate]

\* What a finished thread appended, rebuilt from its locals.
ThreadStat(t) ==
    IF t.type = "TCP" THEN TcpStat(file_size, t.speed)
    ELSE UdpStat(file_size, t.speed, t.success_rate)

(***************************************************************************)
(* speed_test (client.py 205-241).                                         *)
(***************************************************************************)
SpawnTcp ==
    /\ mainPc = "start_tcp"
    /\ mainI < tcp_connections
    /\ threads' = Append(threads, NewThread("TCP", TransferId(mainI)))
    /\ mainI' = mainI + 1
    /\ UNCHANGED <<mainPc, summary, inputVars, offerVars, serverVars, semaphore,
                   connection_stats, conns, listenQ, udpIn, srvUdpQ>>

EndTcpLoop ==
    /\ mainPc = "start_tcp"
    /\ mainI >= tcp_connections
    /\ mainPc' = "start_udp"
    /\ mainI' = 0
    /\ UNCHANGED <<summary, inputVars, offerVars, serverVars, threads, semaphore,
                   connection_stats, conns, listenQ, udpIn, srvUdpQ>>

SpawnUdp ==
    /\ mainPc = "start_udp"
    /\ mainI < udp_connections
    /\ threads' = Append(threads, NewThread("UDP", TransferId(mainI)))
    /\ mainI' = mainI + 1
    /\ UNCHANGED <<mainPc, summary, inputVars, offerVars, serverVars, semaphore,
                   connection_stats, conns, listenQ, udpIn, srvUdpQ>>

EndUdpLoop ==
    /\ mainPc = "start_udp"
    /\ mainI >= udp_connections
    /\ mainPc' = "join"
    /\ mainI' = 1
    /\ UNCHANGED <<summary, inputVars, offerVars, serverVars, threads, semaphore,
                   connection_stats, conns, listenQ, udpIn, srvUdpQ>>

\* Mutant: the join does not wait (a join with a zero timeout).
JoinReturnsAtOnce(t) == TRUE

\* thread.join() returns once the thread has ended.
JoinReturns(t) == t.pc \in Terminal

Join ==
    /\ mainPc = "join"
    /\ mainI <= Len(threads)
    /\ JoinReturns(threads[mainI])
    /\ mainI' = mainI + 1
    /\ UNCHANGED <<mainPc, summary, inputVars, offerVars, serverVars, threads,
                   semaphore, connection_stats, conns, listenQ, udpIn, srvUdpQ>>

\* Mutant: the TCP list takes every result.
IsAnyStat(stat) == TRUE

IsTcpStat(stat) == stat.type = "TCP"
IsUdpStat(stat) == stat.type = "UDP"

\* Lines 231-239: the averages printed, in order; a protocol without a
\* result prints nothing.
Speeds(stats) == [j \in 1..Len(stats) |-> stats[j].speed]
SuccessRates(stats) == [j \in 1..Len(stats) |-> stats[j].success_rate]
Line(name, value) == [name |-> name, value |-> value]

Printed(tcp_stats, udp_stats) ==
    (IF tcp_stats # <<>>
     THEN <<Line("avg_tcp_speed", Mean(Speeds(tcp_stats)))>>
     ELSE <<>>)
    \o (IF udp_stats # <<>>
        THEN <<Line("avg_udp_speed", Mean(Speeds(udp_stats))),
               Line("avg_success_rate", Mean(SuccessRates(udp_stats)))>>
        ELSE <<>>)

\* Before line 227 nothing is read and nothing is printed.
NoSummary == [tcp_stats |-> <<>>, udp_stats |-> <<>>, printed |-> <<>>]

\* Lines 227-241: the two filtered lists, and which averages are printed.
Aggregate ==
    /\ mainPc = "join"
    /\ mainI > Len(threads)
    /\ LET tcp_stats == SelectSeq(connection_stats, IsTcpStat)
           udp_stats == SelectSeq(connection_stats, IsUdpStat)
       IN summary' = [tcp_stats |-> tcp_stats, udp_stats |-> udp_stats,
                      printed |-> Printed(tcp_stats, udp_stats)]
    /\ mainPc' = "done"
    /\ UNCHANGED <<mainI, inputVars, offerVars, serverVars, threads, semaphore,
                   connection_stats, conns, listenQ, udpIn, srvUdpQ>>

(***************************************************************************)
(* The network between the client and its peer.  srvPc is "accept" or      *)
(* "recvfrom" when the peer is the server of server.py, "peer" when it is  *)
(* an arbitrary host and "down" when nobody is there.  What an arbitrary   *)
(* host does with a connection or a request is its own business: only what *)
(* it sends back is kept.                                                  *)
(***************************************************************************)
RealServer == srvPc \in {"accept", "recvfrom"}

\* A completed connect(): the connection waits in the listen queue.
Connected(q, c) == IF RealServer THEN Append(q, c) ELSE q

\* The client closes its end of connection c.
ClientCloses(cs, c) ==
    IF cs[c].state = "none" THEN cs
    ELSE IF RealServer THEN [cs EXCEPT ![c].cliClosed = TRUE]
    ELSE [cs EXCEPT ![c] = [NoConn EXCEPT !.state = "closed",
                                          !.cliClosed = TRUE]]

(***************************************************************************)
(* Timing.  A socket timeout is five seconds and a step of the server      *)
(* takes milliseconds (sleep(0.001) between segments): against the server  *)
(* of server.py a receive times out only when the server has nothing left  *)
(* to do.  An arbitrary peer may be as slow as it likes.                   *)
(***************************************************************************)
ServerIdle ==
    \/ srvPc \in {"down", "peer"}
    \/ /\ srvPc = "accept" => listenQ = <<>>
       /\ srvPc = "recvfrom" => srvUdpQ = <<>>
       /\ \A c \in ConnIds : conns[c].hpc \notin {"read", "send"}
       /\ udpHandlers = <<>>

(***************************************************************************)
(* tcp_transfer (client.py 91-126), thread k of `threads`.                 *)
(***************************************************************************)
ConnOf(k) == <<k, threads[k].attempt>>

\* with semaphore:
TcpAcquire(k) ==
    /\ k \in 1..Len(threads)
    /\ threads[k].type = "TCP"
    /\ threads[k].pc = "acquire"
    /\ semaphore > 0
    /\ semaphore' = semaphore - 1
    /\ threads' = [threads EXCEPT ![k].pc = "connect"]
    /\ UNCHANGED <<mainVars, inputVars, offerVars, serverVars, connection_stats,
                   conns, listenQ, udpIn, srvUdpQ>>

\* connect() succeeds when the server listens and its backlog has room;
\* sendall(f"{file_size}\n"); start_time = time.time(); total_received = 0
TcpConnect(k) ==
    /\ k \in 1..Len(threads)
    /\ threads[k].type = "TCP"
    /\ threads[k].pc = "connect"
    /\ srvPc # "down"
    /\ RealServer => Len(listenQ) < LISTEN_BACKLOG
    /\ conns' = [conns EXCEPT ![ConnOf(k)] =
                    [NoConn EXCEPT !.state = "open",
                                   !.request = EncodeSizeRequest(file_size)]]
    /\ listenQ' = Connected(listenQ, ConnOf(k))
    /\ threads' = [threads EXCEPT ![k].pc = "recv", ![k].total_received = 0]
    /\ UNCHANGED <<mainVars, inputVars, offerVars, serverVars, semaphore,
                   connection_stats, udpIn, srvUdpQ>>

\* Mutant: the permit is not given back when the last attempt fails.
TcpExceptKeepsPermit(k, e) ==
    /\ IF threads[k].attempt = retries - 1
       THEN threads' = [threads EXCEPT ![k].pc = "failed", ![k].e = e]
       ELSE threads' = [threads EXCEPT ![k].pc = "connect",
                                       ![k].attempt = @ + 1]
    /\ conns' = ClientCloses(conns, ConnOf(k))
    /\ UNCHANGED <<mainVars, inputVars, offerVars, serverVars, semaphore,
                   connection_stats, listenQ, udpIn, srvUdpQ>>

\* except Exception as e: retry, or give up after the last attempt (e is
\* unbound again when the handler ends; it is kept for a thread that gave
\* up).  Leaving the `with` blocks closes the socket and, at the end, releases
\* the semaphore.
TcpExcept(k, e) ==
    /\ IF threads[k].attempt = retries - 1
       THEN /\ threads' = [threads EXCEPT ![k].pc = "failed", ![k].e = e]
            /\ semaphore' = semaphore + 1
       ELSE /\ threads' = [threads EXCEPT ![k].pc = "connect",
                                          ![k].attempt = @ + 1]
            /\ UNCHANGED semaphore
    /\ conns' = ClientCloses(conns, ConnOf(k))
    /\ UNCHANGED <<mainVars, inputVars, offerVars, serverVars, connection_stats,
                   listenQ, udpIn, srvUdpQ>>

\* connect() raises: refused (nobody listens, or the peer's choice) or timed
\* out (backlog full).
TcpConnectFail(k) ==
    /\ k \in 1..Len(threads)
    /\ threads[k].type = "TCP"
    /\ threads[k].pc = "connect"
    /\ ~RealServer \/ Len(listenQ) >= LISTEN_BACKLOG
    /\ TcpExcept(k, IF RealServer THEN "timed out" ELSE "refused")

\* recv(min(BUFFER_SIZE, file_size - total_received)) returns what is there.
RecvSize(size, total_received, avail) ==
    Min(Min(CLIENT_BUFFER_SIZE, size - total_received), avail)

TcpRecv(k) ==
    /\ k \in 1..Len(threads)
    /\ threads[k].type = "TCP"
    /\ threads[k].pc = "recv"
    /\ threads[k].total_received < file_size
    /\ conns[ConnOf(k)].state = "open"
    /\ conns[ConnOf(k)].avail > 0
    /\ LET n == RecvSize(file_size, threads[k].total_received,
                         conns[ConnOf(k)].avail)
       IN /\ threads' = [threads EXCEPT ![k].total_received = @ + n]
          /\ conns' = [conns EXCEPT ![ConnOf(k)].avail = @ - n]
    /\ UNCHANGED <<mainVars, inputVars, offerVars, serverVars, semaphore,
                   connection_stats, listenQ, udpIn, srvUdpQ>>

\* recv() raises socket.timeout: nothing to read on a connection still open.
TcpRecvTimeout(k) ==
    /\ k \in 1..Len(threads)
    /\ threads[k].type = "TCP"
    /\ threads[k].pc = "recv"
    /\ threads[k].total_received < file_size
    /\ conns[ConnOf(k)].state = "open"
    /\ conns[ConnOf(k)].avail = 0
    /\ ~conns[ConnOf(k)].srvClosed
    /\ ServerIdle
    /\ TcpExcept(k, "timed out")

\* recv() raises ConnectionResetError.
TcpRecvReset(k) ==
    /\ k \in 1..Len(threads)
    /\ threads[k].type = "TCP"
    /\ threads[k].pc = "recv"
    /\ threads[k].total_received < file_size
    /\ conns[ConnOf(k)].state = "reset"
    /\ TcpExcept(k, "reset")

\* The while loop ends (all bytes, or b"" from a closed peer); lines 113-118.
TcpLoopEnds(t, c) ==
    \/ t.total_received >= file_size
    \/ c.state = "open" /\ c.avail = 0 /\ c.srvClosed

\* Mutant: without the break the for loop goes on to its next attempt.
NoBreak(t) ==
    IF t.attempt < retries - 1
    THEN [t EXCEPT !.pc = "connect", !.attempt = @ + 1]
    ELSE [t EXCEPT !.pc = "finished"]

\* Line 118: break leaves the for loop, and the thread ends.
Break(t) == [t EXCEPT !.pc = "finished"]

TcpFinish(k) ==
    /\ k \in 1..Len(threads)
    /\ threads[k].type = "TCP"
    /\ threads[k].pc = "recv"
    /\ TcpLoopEnds(threads[k], conns[ConnOf(k)])
    /\ \E elapsed_time \in 0..1 :
         LET speed == TcpSpeed(threads[k].total_received, elapsed_time)
             t == Break([threads[k] EXCEPT !.elapsed = elapsed_time,
                                           !.speed = speed])
         IN
         /\ threads' = [threads EXCEPT ![k] = t]
         /\ connection_stats' =
               StatsAppend(connection_stats, TcpStat(file_size, speed))
         /\ semaphore' = IF t.pc \in Terminal THEN semaphore + 1
                         ELSE semaphore
    /\ conns' = ClientCloses(conns, ConnOf(k))
    /\ UNCHANGED <<mainVars, inputVars, offerVars, serverVars, listenQ, udpIn,
                   srvUdpQ>>

(***************************************************************************)
(* udp_transfer (client.py 129-202), thread k of `threads`.                *)
(***************************************************************************)
\* sendto(request_message, (server_ip, udp_port)); a datagram sent to a
\* full socket queue is dropped.
SendRequest(q, k) ==
    IF RealServer /\ Len(q) < MaxInbox
    THEN Append(q, [data |-> PackRequest(MAGIC_COOKIE, MESSAGE_TYPE_REQUEST,
                                         file_size),
                    from |-> k])
    ELSE q

\* Lines 134-144.
UdpStart(k) ==
    /\ k \in 1..Len(threads)
    /\ threads[k].type = "UDP"
    /\ threads[k].pc = "start"
    /\ srvUdpQ' = SendRequest(srvUdpQ, k)
    /\ threads' = [threads EXCEPT ![k].pc = "initial",
                                  ![k].elapsed = 0,
                                  ![k].total_received = 0,
                                  ![k].received_segments = {}]
    /\ UNCHANGED <<mainVars, inputVars, offerVars, serverVars, semaphore,
                   connection_stats, conns, listenQ, udpIn>>

\* Mutant: the handler also records the failed transfer, with speed 0.
UdpExceptRecords(k, e) ==
    /\ threads' = [threads EXCEPT ![k].pc = "failed", ![k].e = e]
    /\ udpIn' = [udpIn EXCEPT ![k] = <<>>]
    /\ connection_stats' =
          Append(connection_stats, [type |-> "UDP", file_size |-> file_size,
                                    speed |-> Rate(0, 1),
                                    success_rate |-> Rate(0, 1)])
    /\ UNCHANGED <<mainVars, inputVars, offerVars, serverVars, semaphore,
                   conns, listenQ, srvUdpQ>>

\* The outer except (line 201): the thread ends without a result; leaving the
\* `with` closes the socket.
UdpExcept(k, e) ==
    /\ threads' = [threads EXCEPT ![k].pc = "failed", ![k].e = e]
    /\ udpIn' = [udpIn EXCEPT ![k] = <<>>]
    /\ UNCHANGED <<mainVars, inputVars, offerVars, serverVars, semaphore,
                   connection_stats, conns, listenQ, srvUdpQ>>

\* Lines 147-150: the first datagram is read and only tested for emptiness.
UdpInitialRecv(k) ==
    /\ k \in 1..Len(threads)
    /\ threads[k].type = "UDP"
    /\ threads[k].pc = "initial"
    /\ udpIn[k] # <<>>
    /\ LET initial_data ==
               RecvFrom(Head(udpIn[k]), CLIENT_BUFFER_SIZE + PAYLOAD_HEADER)
       IN IF DLen(initial_data) = 0
          THEN UdpExcept(k, "No initial response from server")
          ELSE /\ threads' = [threads EXCEPT ![k].pc = "loop"]
               /\ udpIn' = [udpIn EXCEPT ![k] = Tail(@)]
               /\ UNCHANGED <<mainVars, inputVars, offerVars, serverVars,
                              semaphore, connection_stats, conns, listenQ,
                              srvUdpQ>>

\* Lines 151-152: socket.timeout on the first receive is re-raised.
UdpInitialTimeout(k) ==
    /\ k \in 1..Len(threads)
    /\ threads[k].type = "UDP"
    /\ threads[k].pc = "initial"
    /\ udpIn[k] = <<>>
    /\ ServerIdle
    /\ UdpExcept(k, "Server did not respond to initial request")

\* Mutant: no cap on the total time.
UdpLoopGuardNoCap(t) == t.total_received < file_size

\* while total_received < file_size and time.time() - start_time < 30
UdpLoopGuard(t) ==
    t.total_received < file_size /\ t.elapsed < UDP_TOTAL_TIMEOUT

\* Mutant: the payload size is added for every valid datagram.
TrackCountsAll(t, data) ==
    IF DLen(data) < PAYLOAD_HEADER THEN t
    ELSE LET h == UnpackPayload(data) IN
         IF h.magic_cookie # MAGIC_COOKIE
               \/ h.message_type # MESSAGE_TYPE_PAYLOAD
         THEN t
         ELSE [t EXCEPT
                 !.received_segments = @ \cup {h.current_segment},
                 !.total_received = @ + LenFrom(data, PAYLOAD_HEADER)]

\* Lines 158-169: the effect of one received datagram on the thread's locals.
Track(t, data) ==
    IF DLen(data) < PAYLOAD_HEADER THEN t
    ELSE LET h == UnpackPayload(data) IN
         IF h.magic_cookie # MAGIC_COOKIE
               \/ h.message_type # MESSAGE_TYPE_PAYLOAD
         THEN t
         ELSE IF h.current_segment \notin t.received_segments
              THEN [t EXCEPT
                      !.received_segments = @ \cup {h.current_segment},
                      !.total_received = @ + LenFrom(data, PAYLOAD_HEADER)]
              ELSE t

UdpLoopRecv(k) ==
    /\ k \in 1..Len(threads)
    /\ threads[k].type = "UDP"
    /\ threads[k].pc = "loop"
    /\ UdpLoopGuard(threads[k])
    /\ udpIn[k] # <<>>
    /\ LET data == RecvFrom(Head(udpIn[k]), CLIENT_BUFFER_SIZE + PAYLOAD_HEADER)
       IN threads' = [threads EXCEPT ![k] = Track(@, data)]
    /\ udpIn' = [udpIn EXCEPT ![k] = Tail(@)]
    /\ UNCHANGED <<mainVars, inputVars, offerVars, serverVars, semaphore,
                   connection_stats, conns, listenQ, srvUdpQ>>

\* Mutant: a timeout in the loop is raised like the one on the first receive.
UdpLoopTimeoutRaises(k) ==
    /\ k \in 1..Len(threads)
    /\ threads[k].type = "UDP"
    /\ threads[k].pc = "loop"
    /\ UdpLoopGuard(threads[k])
    /\ udpIn[k] = <<>>
    /\ ServerIdle
    /\ UdpExcept(k, "timed out")

\* Lines 177-180: five silent seconds; the request is sent again.
UdpLoopTimeout(k) ==
    /\ k \in 1..Len(threads)
    /\ threads[k].type = "UDP"
    /\ threads[k].pc = "loop"
    /\ UdpLoopGuard(threads[k])
    /\ udpIn[k] = <<>>
    /\ ServerIdle
    /\ threads' = [threads EXCEPT ![k].elapsed = @ + UDP_SOCKET_TIMEOUT]
    /\ srvUdpQ' = SendRequest(srvUdpQ, k)
    /\ UNCHANGED <<mainVars, inputVars, offerVars, serverVars, semaphore,
                   connection_stats, conns, listenQ, udpIn>>

\* time.time() moves on while the loop runs.
UdpTick(k) ==
    /\ k \in 1..Len(threads)
    /\ threads[k].type = "UDP"
    /\ threads[k].pc = "loop"
    /\ threads[k].elapsed < UDP_TOTAL_TIMEOUT
    /\ threads' = [threads EXCEPT ![k].elapsed = @ + TickLen]
    /\ UNCHANGED <<mainVars, inputVars, offerVars, serverVars, semaphore,
                   connection_stats, conns, listenQ, udpIn, srvUdpQ>>

\* recvfrom() raises an OSError other than socket.timeout.
UdpRecvError(k) ==
    /\ k \in 1..Len(threads)
    /\ threads[k].type = "UDP"
    /\ threads[k].pc \in {"initial", "loop"}
    /\ threads[k].pc = "loop" => UdpLoopGuard(threads[k])
    /\ UdpExcept(k, "OSError")

\* Lines 182-194, once the loop condition is false.
UdpFinish(k) ==
    /\ k \in 1..Len(threads)
    /\ threads[k].type = "UDP"
    /\ threads[k].pc = "loop"
    /\ ~UdpLoopGuard(threads[k])
    /\ LET t == threads[k]
           speed == UdpSpeed(t.total_received, t.elapsed)
           success_rate == SuccessRate(t.received_segments,
                                       ExpectedSegments(file_size))
       IN /\ threads' = [threads EXCEPT ![k].pc = "finished",
                                        ![k].speed = speed,
                                        ![k].success_rate = success_rate]
          /\ connection_stats' =
                StatsAppend(connection_stats,
                            UdpStat(file_size, speed, success_rate))
    /\ udpIn' = [udpIn EXCEPT ![k] = <<>>]
    /\ UNCHANGED <<mainVars, inputVars, offerVars, serverVars, semaphore,
                   conns, listenQ, srvUdpQ>>

(***************************************************************************)
(* The server (server.py 57-133).                                          *)
(***************************************************************************)
\* client_conn, _ = tcp_socket.accept(); Thread(handle_tcp_request).start()
SrvAccept ==
    /\ srvPc = "accept"
    /\ listenQ # <<>>
    /\ conns' = [conns EXCEPT ![Head(listenQ)].hpc = "read"]
    /\ listenQ' = Tail(listenQ)
    /\ srvPc' = "recvfrom"
    /\ UNCHANGED <<mainVars, inputVars, offerVars, udpHandlers, threads,
                   semaphore, connection_stats, udpIn, srvUdpQ>>

\* Lines 126-133: one datagram; a handler thread for a well-formed Request.
ValidRequest(data) ==
    /\ UnpackRequestOk(data)
    /\ UnpackRequest(data).magic_number = MAGIC_NUMBER
    /\ UnpackRequest(data).msg_type = REQUEST_MSG_TYPE

NewUdpHandler(client_address, size) ==
    [client_address |-> client_address,
     total_segments |-> TotalSegments(size), i |-> 0]

SrvRecvFrom ==
    /\ srvPc = "recvfrom"
    /\ srvUdpQ # <<>>
    /\ LET data == RecvFrom(Head(srvUdpQ).data, SERVER_BUFFER_SIZE)
           h == NewUdpHandler(Head(srvUdpQ).from, UnpackRequest(data).file_size)
       IN udpHandlers' =
             IF ValidRequest(data) /\ h.total_segments > 0
             THEN Append(udpHandlers, h)
             ELSE udpHandlers
    /\ srvUdpQ' = Tail(srvUdpQ)
    /\ srvPc' = "accept"
    /\ UNCHANGED <<mainVars, inputVars, offerVars, threads, semaphore,
                   connection_stats, conns, listenQ, udpIn>>

\* Lines 64-68: request = recv(BUFFER_SIZE).decode().strip(); int(request)
TcpHandlerRead(c) ==
    /\ conns[c].hpc = "read"
    /\ LET request == Strip(conns[c].request) IN
       IF IsDecimal(request)
       THEN conns' = [conns EXCEPT ![c].hpc = "send",
                                   ![c].hsize = ParseInt(request),
                                   ![c].total_sent = 0]
       ELSE conns' = [conns EXCEPT ![c].hpc = "closed", ![c].herr = TRUE,
                                   ![c].srvClosed = TRUE]
    /\ UNCHANGED <<mainVars, inputVars, offerVars, serverVars, threads,
                   semaphore, connection_stats, listenQ, udpIn, srvUdpQ>>

\* Mutant: every chunk is a full buffer.
ChunkSizeFull(size, total_sent) == SERVER_BUFFER_SIZE

\* chunk = b"0" * min(BUFFER_SIZE, file_size - total_sent)
ChunkSize(size, total_sent) == Min(SERVER_BUFFER_SIZE, size - total_sent)

\* Lines 69-72; sendall raises once the client has closed its end.
TcpHandlerSend(c) ==
    /\ conns[c].hpc = "send"
    /\ conns[c].total_sent < conns[c].hsize
    /\ IF conns[c].cliClosed
       THEN conns' = [conns EXCEPT ![c].hpc = "closed", ![c].herr = TRUE,
                                   ![c].srvClosed = TRUE]
       ELSE LET chunk == ChunkSize(conns[c].hsize, conns[c].total_sent) IN
            conns' = [conns EXCEPT ![c].avail = @ + chunk,
                                   ![c].total_sent = @ + chunk]
    /\ UNCHANGED <<mainVars, inputVars, offerVars, serverVars, threads,
                   semaphore, connection_stats, listenQ, udpIn, srvUdpQ>>

\* Lines 74-78: everything sent; finally: client_socket.close()
TcpHandlerClose(c) ==
    /\ conns[c].hpc = "send"
    /\ conns[c].total_sent >= conns[c].hsize
    /\ conns' = [conns EXCEPT ![c].hpc = "closed", ![c].srvClosed = TRUE]
    /\ UNCHANGED <<mainVars, inputVars, offerVars, serverVars, threads,
                   semaphore, connection_stats, listenQ, udpIn, srvUdpQ>>

\* The index written into segment i's header: i + 1.
SegmentIndex(i) == i + 1

SocketOpen(k) ==
    k \in 1..Len(threads) /\ threads[k].pc \in {"initial", "loop"}

RemoveAt(q, n) == SubSeq(q, 1, n - 1) \o SubSeq(q, n + 1, Len(q))

\* Lines 90-94: one segment per step, paced by sleep(0.001); a datagram for
\* a socket that was closed is dropped.
UdpHandlerSend(n) ==
    /\ n \in 1..Len(udpHandlers)
    /\ LET h == udpHandlers[n]
           k == h.client_address
           segment == PackPayload(MAGIC_NUMBER, PAYLOAD_MSG_TYPE,
                                  h.total_segments, SegmentIndex(h.i),
                                  SERVER_BUFFER_SIZE)
       IN /\ h.i < h.total_segments
          /\ SocketOpen(k) => Len(udpIn[k]) < MaxInbox
          /\ udpIn' = IF SocketOpen(k)
                      THEN [udpIn EXCEPT ![k] = Append(@, segment)]
                      ELSE udpIn
          /\ udpHandlers' =
                IF h.i + 1 < h.total_segments
                THEN [udpHandlers EXCEPT ![n].i = @ + 1]
                ELSE RemoveAt(udpHandlers, n)
    /\ UNCHANGED <<mainVars, inputVars, offerVars, srvPc, threads, semaphore,
                   connection_stats, conns, listenQ, srvUdpQ>>

(***************************************************************************)
(* Discovery: send_server_offers (server.py 37-55) and listen_for_offers   *)
(* (client.py 70-88).                                                      *)
(***************************************************************************)
\* Lines 119-121: the broadcaster thread is started on the bound sockets
\* (srvPc = "bound"); the main thread then calls tcp_socket.listen(5) and
\* enters its loop.
SrvListen ==
    /\ srvPc = "bound"
    /\ srvPc' = "accept"
    /\ UNCHANGED <<mainVars, inputVars, offerVars, udpHandlers, threads,
                   semaphore, connection_stats, conns, listenQ, udpIn, srvUdpQ>>

\* One broadcast of the while-True loop; a full socket queue drops it.
SendOffer ==
    /\ mainPc = "listen"
    /\ Len(offerIn) < MaxInbox
    /\ offersSent < MaxOffers
    /\ LET message == PackOffer(MAGIC_NUMBER, OFFER_MSG_TYPE,
                                srvPorts.udp_port, srvPorts.tcp_port)
       IN offerIn' = Append(offerIn, [data |-> message, addr |-> "server"])
    /\ offersSent' = offersSent + 1
    /\ UNCHANGED <<mainVars, inputVars, endpoint, srvPorts, serverVars, threads,
                   semaphore, connection_stats, conns, listenQ, udpIn, srvUdpQ>>

\* Datagrams other hosts send to the discovery port.
ForeignDatagrams ==
    LET offer == PackOffer(MAGIC_COOKIE, MESSAGE_TYPE_OFFER, 2001, 2002) IN
    { Dgram(offer.bytes, 1),                                 \* trailing byte
      Dgram(SubSeq(offer.bytes, 1, 8), 0),                   \* cut short
      PackOffer(<<171, 205, 220, 187>>, MESSAGE_TYPE_OFFER, 2001, 2002),
      PackOffer(MAGIC_COOKIE, MESSAGE_TYPE_REQUEST, 2001, 2002),
      PackRequest(MAGIC_COOKIE, MESSAGE_TYPE_OFFER, 2001) }   \* 13 bytes

ForeignDatagram(d) ==
    /\ mainPc = "listen"
    /\ Len(offerIn) < MaxInbox
    /\ offerIn' = Append(offerIn, [data |-> d, addr |-> "other"])
    /\ UNCHANGED <<mainVars, inputVars, endpoint, offersSent, srvPorts,
                   serverVars, threads, semaphore, connection_stats, conns,
                   listenQ, udpIn, srvUdpQ>>

\* Lines 82-83: unpack('!IBHH', data[:10]) and the two comparisons; FALSE
\* also when unpack raises struct.error (caught at line 87).
AcceptsOffer(data) ==
    LET bs == Slice(data, OFFER_SLICE) IN
    /\ UnpackOfferOk(bs)
    /\ UnpackOffer(bs).magic_cookie = MAGIC_COOKIE
    /\ UnpackOffer(bs).message_type = MESSAGE_TYPE_OFFER

\* One pass of the while-True loop of listen_for_offers.
ListenRecv ==
    /\ mainPc = "listen"
    /\ offerIn # <<>>
    /\ LET data == RecvFrom(Head(offerIn).data, CLIENT_BUFFER_SIZE)
           addr == Head(offerIn).addr
       IN IF AcceptsOffer(data)
          THEN /\ endpoint' =
                     [server_ip |-> addr,
                      udp_port |-> UnpackOffer(Slice(data, OFFER_SLICE)).udp_port,
                      tcp_port |-> UnpackOffer(Slice(data, OFFER_SLICE)).tcp_port]
               /\ mainPc' = "start_tcp"
               /\ mainI' = 0
               /\ offerIn' = <<>>
          ELSE /\ offerIn' = Tail(offerIn)
               /\ UNCHANGED <<endpoint, mainPc, mainI>>
    /\ UNCHANGED <<summary, inputVars, offersSent, srvPorts, serverVars, threads,
                   semaphore, connection_stats, conns, listenQ, udpIn, srvUdpQ>>

(***************************************************************************)
(* An arbitrary peer and network, for what the client must tolerate.       *)
(***************************************************************************)
MaxPeerChunks == 1

PeerLive(c) ==
    /\ srvPc = "peer"
    /\ conns[c].state = "open"
    /\ ~conns[c].srvClosed
    /\ ~conns[c].cliClosed

PeerSend(c) ==
    /\ PeerLive(c)
    /\ conns[c].total_sent < MaxPeerChunks * CLIENT_BUFFER_SIZE
    /\ conns' = [conns EXCEPT ![c].avail = @ + CLIENT_BUFFER_SIZE,
                              ![c].total_sent = @ + CLIENT_BUFFER_SIZE]
    /\ UNCHANGED <<mainVars, inputVars, offerVars, serverVars, threads,
                   semaphore, connection_stats, listenQ, udpIn, srvUdpQ>>

PeerClose(c) ==
    /\ PeerLive(c)
    /\ conns' = [conns EXCEPT ![c].srvClosed = TRUE]
    /\ UNCHANGED <<mainVars, inputVars, offerVars, serverVars, threads,
                   semaphore, connection_stats, listenQ, udpIn, srvUdpQ>>

PeerReset(c) ==
    /\ PeerLive(c)
    /\ conns' = [conns EXCEPT ![c].state = "reset"]
    /\ UNCHANGED <<mainVars, inputVars, offerVars, serverVars, threads,
                   semaphore, connection_stats, listenQ, udpIn, srvUdpQ>>

\* What may arrive on a client thread's UDP socket: segments 1 and 2 of a
\* two-segment answer, an empty datagram, and a frame with a wrong magic.
PeerDatagrams ==
    { PackPayload(MAGIC_NUMBER, PAYLOAD_MSG_TYPE, 2, 1, SERVER_BUFFER_SIZE),
      PackPayload(MAGIC_NUMBER, PAYLOAD_MSG_TYPE, 2, 2, SERVER_BUFFER_SIZE),
      Dgram(<<>>, 0),
      PackPayload(<<0, 0, 0, 0>>, PAYLOAD_MSG_TYPE, 2, 1, SERVER_BUFFER_SIZE) }

PeerDatagram(k, d) ==
    /\ srvPc = "peer"
    /\ SocketOpen(k)
    /\ threads[k].type = "UDP"
    /\ Len(udpIn[k]) < MaxInbox
    /\ udpIn' = [udpIn EXCEPT ![k] = Append(@, d)]
    /\ UNCHANGED <<mainVars, inputVars, offerVars, serverVars, threads,
                   semaphore, connection_stats, conns, listenQ, srvUdpQ>>

(***************************************************************************)
(* Initial states and specifications.                                      *)
(***************************************************************************)
FileSizes == {1, 1024, 5000, 10000}
PeerFileSizes == {1, 1500}
Ports == {1025, 40000}

InitCommon ==
    /\ tcp_connections \in 0..MaxThreads
    /\ udp_connections \in 0..MaxThreads
    /\ tcp_connections + udp_connections <= MaxThreads
    /\ mainI = 0
    /\ threads = <<>>
    /\ semaphore = max_connections
    /\ connection_stats = <<>>
    /\ summary = NoSummary
    /\ conns = [c \in ConnIds |-> NoConn]
    /\ listenQ = <<>>
    /\ udpIn = [k \in ThreadIds |-> <<>>]
    /\ srvUdpQ = <<>>
    /\ udpHandlers = <<>>
    /\ offerIn = <<>>
    /\ offersSent = 0
    /\ srvPorts \in [udp_port : Ports, tcp_port : Ports]

\* A round against the server of server.py, after discovery.
Init ==
    /\ InitCommon
    /\ file_size \in FileSizes
    /\ mainPc = "start_tcp"
    /\ srvPorts = [udp_port |-> 1025, tcp_port |-> 40000]
    /\ endpoint = [server_ip |-> "server", udp_port |-> srvPorts.udp_port,
                   tcp_port |-> srvPorts.tcp_port]
    /\ srvPc = "accept"

ClientThread(k) ==
    \/ TcpAcquire(k) \/ TcpConnect(k) \/ TcpRecv(k) \/ TcpRecvTimeout(k)
    \/ TcpFinish(k)
    \/ UdpStart(k) \/ UdpInitialRecv(k) \/ UdpInitialTimeout(k)
    \/ UdpLoopRecv(k) \/ UdpLoopTimeout(k) \/ UdpFinish(k)

SpeedTest ==
    SpawnTcp \/ EndTcpLoop \/ SpawnUdp \/ EndUdpLoop \/ Join \/ Aggregate

Server ==
    \/ SrvAccept \/ SrvRecvFrom
    \/ \E c \in ConnIds : TcpHandlerRead(c) \/ TcpHandlerSend(c)
                             \/ TcpHandlerClose(c)
    \/ \E n \in 1..MaxInbox * 2 : UdpHandlerSend(n)

Next ==
    \/ SpeedTest
    \/ \E k \in ThreadIds : ClientThread(k)
    \/ Server

Spec == Init /\ [][Next]_vars

\* The same round with what the schedulers guarantee: the server's main loop
\* and each of its handler threads take their next step when they can (a
\* blocking accept() or recvfrom() returns once something is queued), and so
\* do the client's main thread and its transfer threads.
TcpHandlerStep(c) ==
    TcpHandlerRead(c) \/ TcpHandlerSend(c) \/ TcpHandlerClose(c)

FairServer ==
    /\ WF_vars(SrvAccept)
    /\ WF_vars(SrvRecvFrom)
    /\ \A c \in ConnIds : WF_vars(TcpHandlerStep(c))
    /\ \A n \in 1..MaxInbox * 2 : WF_vars(UdpHandlerSend(n))

FairClient ==
    /\ WF_vars(SpeedTest)
    /\ \A k \in ThreadIds : WF_vars(ClientThread(k))

LiveSpec == Init /\ [][Next]_vars /\ FairServer /\ FairClient

\* A round against an arbitrary peer over an unreliable network.
InitPeer ==
    /\ InitCommon
    /\ file_size \in PeerFileSizes
    /\ mainPc = "start_tcp"
    /\ srvPorts = [udp_port |-> 1025, tcp_port |-> 40000]
    /\ endpoint = [server_ip |-> "server", udp_port |-> srvPorts.udp_port,
                   tcp_port |-> srvPorts.tcp_port]
    /\ srvPc \in {"down", "peer"}

Peer ==
    \/ \E c \in ConnIds : PeerSend(c) \/ PeerClose(c) \/ PeerReset(c)
    \/ \E k \in ThreadIds : \E d \in PeerDatagrams : PeerDatagram(k, d)

NextPeer ==
    \/ SpeedTest
    \/ \E k \in ThreadIds : ClientThread(k) \/ TcpConnectFail(k)
                               \/ TcpRecvReset(k) \/ UdpRecvError(k)
                               \/ UdpTick(k)
    \/ Peer

SpecPeer == InitPeer /\ [][NextPeer]_vars

\* The same, with what the scheduler, the socket timeouts and the clock
\* guarantee: the main thread and every started thread keep taking steps (a
\* blocking socket call returns data, an error or a timeout), and time passes.
\* Nothing is assumed of the peer.
ThreadStep(k) ==
    ClientThread(k) \/ TcpConnectFail(k) \/ TcpRecvReset(k) \/ UdpRecvError(k)

FairPeer ==
    /\ WF_vars(SpeedTest)
    /\ \A k \in ThreadIds : WF_vars(ThreadStep(k)) /\ WF_vars(UdpTick(k))

\* At most this many tasks of each kind in a round checked for termination.
MaxLivePerKind == 1

InitLive ==
    /\ InitPeer
    /\ file_size = 1500
    /\ srvPc = "peer"
    /\ tcp_connections <= MaxLivePerKind
    /\ udp_connections <= MaxLivePerKind

LiveSpecPeer == InitLive /\ [][NextPeer]_vars /\ FairPeer

\* Several rounds in sequence (client.py 244-248): when speed_test has
\* returned, startup() reads the next inputs and listen_for_offers() returns
\* the server's offer again; speed_test then starts with its own `threads`
\* and new sockets.  The module-level semaphore and connection_stats are
\* what they were.
MaxRoundThreads == 1
MaxResults == 2

StartRound ==
    /\ mainPc = "done"
    /\ \E size \in {file_size}, tcp \in 0..MaxRoundThreads,
          udp \in 0..MaxRoundThreads :
          /\ tcp + udp <= MaxRoundThreads
          /\ Len(connection_stats) + tcp + udp <= MaxResults
          /\ file_size' = size
          /\ tcp_connections' = tcp
          /\ udp_connections' = udp
    /\ mainPc' = "start_tcp"
    /\ mainI' = 0
    /\ summary' = NoSummary
    /\ threads' = <<>>
    /\ conns' = [c \in ConnIds |-> NoConn]
    /\ udpIn' = [k \in ThreadIds |-> <<>>]
    /\ UNCHANGED <<offerVars, serverVars, semaphore, connection_stats, listenQ,
                   srvUdpQ>>

InitRounds ==
    /\ InitPeer
    /\ file_size = 1500
    /\ srvPc = "peer"
    /\ tcp_connections + udp_connections <= MaxRoundThreads

NextRounds == NextPeer \/ StartRound

SpecRounds == InitRounds /\ [][NextRounds]_vars

\* Discovery alone.
InitOffers ==
    /\ InitCommon
    /\ file_size \in {1024}
    /\ mainPc = "listen"
    /\ endpoint = "none"
    /\ srvPc = "bound"

NextOffers ==
    \/ SrvListen
    \/ SendOffer
    \/ \E d \in ForeignDatagrams : ForeignDatagram(d)
    \/ ListenRecv

SpecOffers == InitOffers /\ [][NextOffers]_vars

(***************************************************************************)
(* Properties.                                                             *)
(***************************************************************************)
Threads == 1..Len(threads)
TcpThreads == {k \in Threads : threads[k].type = "TCP"}
UdpThreads == {k \in Threads : threads[k].type = "UDP"}
Finished == {k \in Threads : threads[k].pc = "finished"}
Failed == {k \in Threads : threads[k].pc = "failed"}
Count(q, r) == Cardinality({j \in 1..Len(q) : q[j] = r})
Range(q) == {q[j] : j \in 1..Len(q)}

\* C1: when speed_test has read the statistics and returned, it has started
\* all tcp_connections + udp_connections threads, every one of them has
\* ended (with a result or with a caught failure), and the lists it read
\* hold every result appended.
C1_AggregateAfterAllJoined ==
    mainPc = "done" =>
        /\ Len(threads) = tcp_connections + udp_connections
        /\ \A k \in Threads : threads[k].pc \in Terminal
        /\ summary.tcp_stats = SelectSeq(connection_stats, IsTcpStat)
        /\ summary.udp_stats = SelectSeq(connection_stats, IsUdpStat)
        /\ Len(summary.tcp_stats) + Len(summary.udp_stats) = Cardinality(Finished)

C1_Witness ==
    /\ mainPc = "done"
    /\ Len(threads) = 2
    /\ threads[1].pc = "failed"
    /\ threads[2].pc = "finished"

\* C2: a thread that fails appends nothing and changes nothing of its
\* siblings or of speed_test; the collection holds exactly the results of the
\* threads that finished, and so do the lists the aggregate is computed from.
C2_ResultsAreTheFinished ==
    /\ \A r \in Range(connection_stats)
                  \cup {ThreadStat(threads[k]) : k \in Finished} :
          Count(connection_stats, r) =
             Cardinality({k \in Finished : ThreadStat(threads[k]) = r})
    /\ mainPc = "done" =>
          \A k \in Finished :
             ThreadStat(threads[k]) \in
                Range(summary.tcp_stats) \cup Range(summary.udp_stats)

C2_FailureAltersNothing ==
    \A k \in Threads :
       (threads[k].pc \notin Terminal /\ threads'[k].pc = "failed") =>
          /\ connection_stats' = connection_stats
          /\ <<mainPc, mainI, summary>>' = <<mainPc, mainI, summary>>
          /\ Len(threads') = Len(threads)
          /\ \A j \in Threads \ {k} :
                /\ threads'[j] = threads[j]
                /\ udpIn'[j] = udpIn[j]
                /\ \A a \in 0..(retries - 1) : conns'[<<j, a>>] = conns[<<j, a>>]

C2_FailureIsConfined ==
    [](C2_ResultsAreTheFinished) /\ [][C2_FailureAltersNothing]_vars

C2_Witness ==
    /\ mainPc = "done"
    /\ \E k \in Failed : threads[k].type = "TCP"
    /\ \E k \in Finished :
          /\ threads[k].type = "UDP"
          /\ ThreadStat(threads[k]) \in Range(summary.udp_stats)

\* C3: each thread that finishes appends exactly one result and nothing
\* appended is ever lost, changed or removed, so a round in which no thread
\* fails ends with tcp_connections TCP results and udp_connections UDP
\* results; the TCP threads carry the ids 1..T and the UDP threads 1..U.
C3_Counts ==
    /\ Len(connection_stats) = Cardinality(Finished)
    /\ Len(SelectSeq(connection_stats, IsTcpStat))
          = Cardinality(Finished \cap TcpThreads)
    /\ Len(SelectSeq(connection_stats, IsUdpStat))
          = Cardinality(Finished \cap UdpThreads)
    /\ (mainPc = "done" /\ Failed = {}) =>
          /\ Len(connection_stats) = tcp_connections + udp_connections
          /\ Len(SelectSeq(connection_stats, IsTcpStat)) = tcp_connections
          /\ Len(SelectSeq(connection_stats, IsUdpStat)) = udp_connections
    /\ {threads[k].transfer_id : k \in TcpThreads} = 1..Cardinality(TcpThreads)
    /\ {threads[k].transfer_id : k \in UdpThreads} = 1..Cardinality(UdpThreads)
    /\ \A j, k \in Threads :
          (j # k /\ threads[j].type = threads[k].type) =>
              threads[j].transfer_id # threads[k].transfer_id

C3_AppendOnly ==
    /\ Len(connection_stats') >= Len(connection_stats)
    /\ SubSeq(connection_stats', 1, Len(connection_stats)) = connection_stats

C3_OneResultPerTask == [](C3_Counts) /\ [][C3_AppendOnly]_vars

C3_Witness ==
    /\ mainPc = "done"
    /\ Failed = {}
    /\ tcp_connections = 1
    /\ udp_connections = 1
    /\ Len(connection_stats) = 2

\* C4: a TCP transfer the server serves without a socket error: the handler
\* has written exactly the requested file_size bytes when it closes, the
\* client never counts more than file_size, and when it records the result
\* it has counted exactly file_size and a speed above zero.
C4_TcpDeliversExactly ==
    /\ \A c \in ConnIds :
          /\ conns[c].hpc = "send" => conns[c].total_sent <= file_size
          /\ (conns[c].hpc = "closed" /\ ~conns[c].herr) =>
                /\ conns[c].total_sent = file_size
                /\ conns[c].hsize = file_size
                /\ conns[c].srvClosed
    /\ \A k \in TcpThreads :
          /\ threads[k].total_received <= file_size
          /\ threads[k].pc = "finished" =>
                /\ threads[k].total_received = file_size
                /\ Positive(threads[k].speed)
                /\ TcpStat(file_size, threads[k].speed)
                      \in Range(connection_stats)

C4_Witness ==
    \E k \in TcpThreads :
       /\ file_size = 5000
       /\ threads[k].pc = "finished"
       /\ threads[k].total_received = 5000
       /\ conns[ConnOf(k)].hpc = "closed"
       /\ ~conns[ConnOf(k)].herr
       /\ conns[ConnOf(k)].total_sent = 5000

\* C5: a UDP transfer over a network that loses, duplicates and reorders
\* nothing ends with every expected segment in the tracker: as many unique
\* segments as expected (5 for 5000 bytes) and a success rate of 100%.
C5_NoLossFullSuccess ==
    \A k \in UdpThreads :
       threads[k].pc = "finished" =>
          /\ Cardinality(threads[k].received_segments)
                = ExpectedSegments(file_size)
          /\ threads[k].success_rate.num = 100 * threads[k].success_rate.den
          /\ file_size = 5000 => Cardinality(threads[k].received_segments) = 5

\* C6: a valid Payload datagram whose segment index is already in the tracker
\* changes neither the set of segments nor total_received, so total_received
\* never exceeds one buffer per unique segment.
IsPayloadFrame(d) ==
    /\ DLen(d) >= PAYLOAD_HEADER
    /\ UnpackPayload(d).magic_cookie = MAGIC_COOKIE
    /\ UnpackPayload(d).message_type = MESSAGE_TYPE_PAYLOAD

LoopReceives(k) ==
    /\ threads[k].pc = "loop"
    /\ udpIn[k] # <<>>
    /\ udpIn'[k] = Tail(udpIn[k])
    /\ threads'[k].pc = "loop"

C6_DuplicateStep ==
    \A k \in UdpThreads :
       ( /\ LoopReceives(k)
         /\ IsPayloadFrame(Head(udpIn[k]))
         /\ UnpackPayload(Head(udpIn[k])).current_segment
               \in threads[k].received_segments )
       => /\ threads'[k].received_segments = threads[k].received_segments
          /\ threads'[k].total_received = threads[k].total_received

C6_NotInflated ==
    \A k \in UdpThreads :
       threads[k].total_received
          <= Cardinality(threads[k].received_segments) * CLIENT_BUFFER_SIZE

C6_TrackerIdempotent == [](C6_NotInflated) /\ [][C6_DuplicateStep]_vars

C6_Witness ==
    \E k \in UdpThreads :
       /\ threads[k].pc = "loop"
       /\ threads[k].received_segments = {1}
       /\ threads[k].total_received = CLIENT_BUFFER_SIZE
       /\ udpIn[k] # <<>>
       /\ IsPayloadFrame(Head(udpIn[k]))
       /\ UnpackPayload(Head(udpIn[k])).current_segment = 1

\* C7: the total_segments the server computes and writes into its Payload
\* headers equals the number of segments the client expects for the same
\* request (10 and 10 for 10000 bytes).
C7_SameSegmentCount ==
    /\ \A n \in 1..Len(udpHandlers) :
          /\ udpHandlers[n].total_segments = ExpectedSegments(file_size)
          /\ file_size = 10000 => udpHandlers[n].total_segments = 10
    /\ \A k \in UdpThreads : \A j \in 1..Len(udpIn[k]) :
          UnpackPayload(udpIn[k][j]).total_segments
             = ExpectedSegments(file_size)

\* C8: listen_for_offers returns on the first datagram that carries the magic
\* and the Offer type, with the sender's address and the two ports in it, and
\* ignores every other datagram without leaving the loop.
IsOfferFrame(d) ==
    /\ DLen(d) >= 9
    /\ Slice(d, 4) = MAGIC_COOKIE
    /\ Slice(d, 5)[5] = MESSAGE_TYPE_OFFER

C8_ListenStep ==
    (mainPc = "listen" /\ offerIn # <<>> /\ Len(offerIn') < Len(offerIn)) =>
       LET d == Head(offerIn).data IN
       IF IsOfferFrame(d)
       THEN /\ mainPc' = "start_tcp"
            /\ endpoint' =
                  [server_ip |-> Head(offerIn).addr,
                   udp_port |-> FromBigEndian(SubSeq(Slice(d, 9), 6, 7)),
                   tcp_port |-> FromBigEndian(SubSeq(Slice(d, 9), 8, 9))]
       ELSE /\ mainPc' = "listen"
            /\ endpoint' = endpoint

C8_ReturnsFirstOffer == [][C8_ListenStep]_vars

\* C9 as claimed: no thread ends without a result because a receive timed
\* out.
TimeoutErrors == {"timed out", "Server did not respond to initial request"}

C9_TimeoutStillRecords ==
    \A k \in Failed : threads[k].e \notin TimeoutErrors

\* C9, amended: a TCP thread whose peer closes the stream early, and a UDP
\* thread that leaves its receive loop without a socket error other than a
\* timeout, append a result computed from the bytes and segments received so
\* far; a UDP thread fails on a timeout only while waiting for its first
\* datagram, a TCP thread only when its last attempt times out.
C9_RecordsReceivedSoFar ==
    /\ \A k \in Finished :
          /\ threads[k].speed.num = threads[k].total_received * 8 * 1000
          /\ threads[k].type = "UDP" =>
                threads[k].success_rate.num
                   = 100 * Cardinality(threads[k].received_segments)
          /\ ThreadStat(threads[k]) \in Range(connection_stats)
    /\ \A k \in Failed :
          /\ (threads[k].type = "UDP" /\ threads[k].e \in TimeoutErrors) =>
                threads[k].received_segments = {}
          /\ (threads[k].type = "TCP" /\ threads[k].e \in TimeoutErrors) =>
                threads[k].attempt = retries - 1

C9_EarlyCloseStep ==
    \A k \in TcpThreads :
       ( /\ threads[k].pc = "recv"
         /\ threads[k].total_received < file_size
         /\ conns[ConnOf(k)].state = "open"
         /\ conns[ConnOf(k)].avail = 0
         /\ conns[ConnOf(k)].srvClosed
         /\ threads'[k] # threads[k] )
       => /\ threads'[k].pc = "finished"
          /\ threads'[k].total_received = threads[k].total_received
          /\ Len(connection_stats') = Len(connection_stats) + 1

C9_LoopExitStep ==
    \A k \in UdpThreads :
       (threads[k].pc = "loop" /\ threads'[k].pc # "loop") =>
          \/ /\ threads'[k].pc = "finished"
             /\ Len(connection_stats') = Len(connection_stats) + 1
          \/ /\ threads'[k].pc = "failed"
             /\ threads'[k].e = "OSError"

C9_PartialIsRecorded ==
    /\ [](C9_RecordsReceivedSoFar)
    /\ [][C9_EarlyCloseStep /\ C9_LoopExitStep]_vars

C9_Witness ==
    /\ \E k \in Finished \cap TcpThreads :
          /\ file_size = 1500
          /\ threads[k].total_received = CLIENT_BUFFER_SIZE
    /\ \E k \in Finished \cap UdpThreads :
          /\ threads[k].received_segments = {2}
          /\ threads[k].elapsed >= UDP_TOTAL_TIMEOUT

StatsOfType(type) ==
    LET Idx == {j \in 1..Len(connection_stats) :
                   connection_stats[j].type = type}
        RECURSIVE Pick(_)
        Pick(S) == IF S = {} THEN <<>>
                   ELSE LET j == CHOOSE x \in S : \A y \in S : x >= y
                        IN Append(Pick(S \ {j}), connection_stats[j])
    IN Pick(Idx)

PrintedLines(name) ==
    {j \in 1..Len(summary.printed) : summary.printed[j].name = name}

C11_AveragesPerProtocol ==
    mainPc = "done" =>
        /\ \A j \in 1..Len(summary.printed) :
              summary.printed[j].name
                 \in {"avg_tcp_speed", "avg_udp_speed", "avg_success_rate"}
        /\ IF Finished \cap TcpThreads = {}
           THEN PrintedLines("avg_tcp_speed") = {}
           ELSE \E j \in 1..Len(summary.printed) :
                   /\ PrintedLines("avg_tcp_speed") = {j}
                   /\ summary.printed[j].value
                         = Mean(Speeds(StatsOfType("TCP")))
        /\ IF Finished \cap UdpThreads = {}
           THEN /\ PrintedLines("avg_udp_speed") = {}
                /\ PrintedLines("avg_success_rate") = {}
           ELSE \E j, l \in 1..Len(summary.printed) :
                   /\ PrintedLines("avg_udp_speed") = {j}
                   /\ PrintedLines("avg_success_rate") = {l}
                   /\ summary.printed[j].value
                         = Mean(Speeds(StatsOfType("UDP")))
                   /\ summary.printed[l].value
                         = Mean(SuccessRates(StatsOfType("UDP")))

C11_Witness ==
    /\ mainPc = "done"
    /\ Finished \cap TcpThreads # {}
    /\ UdpThreads # {}
    /\ Finished \cap UdpThreads = {}
    /\ Len(summary.printed) = 1
    /\ summary.printed[1].name = "avg_tcp_speed"

\* C12: a receive attempt of the UDP loop that times out, no datagram having
\* arrived, ends the transfer: the thread does not stay in its receive loop.
C12_TimeoutStep ==
    \A k \in UdpThreads :
       ( /\ threads[k].pc = "loop"
         /\ UdpLoopGuard(threads[k])
         /\ udpIn[k] = <<>>
         /\ threads'[k] # threads[k] )
       => threads'[k].pc \in Terminal

C12_TimeoutEndsLoop == [][C12_TimeoutStep]_vars

\* C13: every valid Payload datagram a UDP thread takes from its socket after
\* sending the Request, the first one included, has its segment index in the
\* tracker afterwards.
C13_ReceiveStep ==
    \A k \in UdpThreads :
       ( /\ threads[k].pc \in {"initial", "loop"}
         /\ udpIn[k] # <<>>
         /\ udpIn'[k] = Tail(udpIn[k])
         /\ threads'[k].pc = "loop"
         /\ IsPayloadFrame(Head(udpIn[k])) )
       => UnpackPayload(Head(udpIn[k])).current_segment
             \in threads'[k].received_segments

C13_EveryPayloadRecorded == [][C13_ReceiveStep]_vars

\* C14: the Payload frames the server sends for a Request carry the segment
\* indices 0 .. total_segments - 1: every index sent is below the
\* total_segments of the same header, and a handler that has sent i frames
\* sends index i next.
C14_IndexBelowTotal ==
    /\ \A k \in ThreadIds : \A j \in 1..Len(udpIn[k]) :
          LET h == UnpackPayload(udpIn[k][j]) IN
          h.current_segment < h.total_segments
    /\ \A n \in 1..Len(udpHandlers) :
          SegmentIndex(udpHandlers[n].i) = udpHandlers[n].i

\* C15: a valid Request queued on the server's UDP socket is eventually
\* answered: a handler thread for its sender is started, whether or not a
\* TCP connection ever arrives.
RequestQueued(k) ==
    \E j \in 1..Len(srvUdpQ) :
       srvUdpQ[j].from = k /\ ValidRequest(srvUdpQ[j].data)

Answering(k) ==
    \E n \in 1..Len(udpHandlers) : udpHandlers[n].client_address = k

C15_RequestAnswered ==
    \A k \in ThreadIds : RequestQueued(k) ~> Answering(k)

\* C16: a connection completed to the server's listening port is eventually
\* accepted and handed to a handler thread of its own, whether or not a UDP
\* datagram ever arrives.
InListenQueue(c) == \E j \in 1..Len(listenQ) : listenQ[j] = c

C16_ConnectionServed ==
    \A c \in ConnIds : InListenQueue(c) ~> (conns[c].hpc # "none")

\* C17: the averages printed at the end of a round are computed over the
\* results of that round's threads only: each list read holds one result per
\* thread of the round that finished, and the averages are the means of
\* those threads' rates.
RoundRates(type, Field(_)) ==
    LET S == {k \in Finished : threads[k].type = type}
        RECURSIVE Pick(_)
        Pick(T) == IF T = {} THEN <<>>
                   ELSE LET k == CHOOSE x \in T : \A y \in T : x >= y
                        IN Append(Pick(T \ {k}), Field(threads[k]))
    IN Pick(S)

SpeedOf(t) == t.speed
SuccessRateOf(t) == t.success_rate

C17_RoundScoped ==
    mainPc = "done" =>
        /\ Len(summary.tcp_stats) = Cardinality(Finished \cap TcpThreads)
        /\ Len(summary.udp_stats) = Cardinality(Finished \cap UdpThreads)
        /\ summary.printed =
              (IF Finished \cap TcpThreads # {}
               THEN <<Line("avg_tcp_speed", Mean(RoundRates("TCP", SpeedOf)))>>
               ELSE <<>>)
              \o (IF Finished \cap UdpThreads # {}
                  THEN <<Line("avg_udp_speed",
                              Mean(RoundRates("UDP", SpeedOf))),
                         Line("avg_success_rate",
                              Mean(RoundRates("UDP", SuccessRateOf)))>>
                  ELSE <<>>)

\* C18: a TCP thread makes at most 3 attempts; it goes to a next attempt only
\* from an exception, ends for good once an attempt has completed, appends
\* one result when an attempt succeeds and none when all 3 fail: the
\* collection never holds more TCP results than TCP threads that finished.
C18_Results ==
    /\ \A k \in TcpThreads :
          /\ threads[k].attempt \in 0..(retries - 1)
          /\ threads[k].pc = "failed" => threads[k].attempt = retries - 1
    /\ Cardinality({j \in 1..Len(connection_stats) :
                       connection_stats[j].type = "TCP"})
          = Cardinality(Finished \cap TcpThreads)

C18_AttemptStep ==
    \A k \in TcpThreads :
       /\ threads[k].pc \in Terminal => threads'[k] = threads[k]
       /\ threads'[k].attempt \in {threads[k].attempt, threads[k].attempt + 1}
       /\ threads'[k].attempt = threads[k].attempt + 1 =>
             /\ threads[k].pc \in {"connect", "recv"}
             /\ threads'[k].pc = "connect"
             /\ connection_stats' = connection_stats
       /\ (threads[k].pc # "finished" /\ threads'[k].pc = "finished") =>
             connection_stats'
                = Append(connection_stats, ThreadStat(threads'[k]))

C18_AtMostOneResult == [](C18_Results) /\ [][C18_AttemptStep]_vars

C18_Witness ==
    /\ \E k \in Finished \cap TcpThreads : threads[k].attempt = retries - 1
    /\ \E k \in Failed \cap TcpThreads : threads[k].attempt = retries - 1
    /\ Len(connection_stats) = 1

\* C19: the TCP threads between acquiring and releasing the semaphore are
\* never more than max_connections; each holds exactly one permit and gives
\* it back however it ends, so all permits are back when the round is over;
\* and a TCP thread waiting for the semaphore eventually enters.
InSection == {k \in TcpThreads : threads[k].pc \in {"connect", "recv"}}

C19_Permits ==
    /\ semaphore >= 0
    /\ Cardinality(InSection) <= max_connections
    /\ semaphore + Cardinality(InSection) = max_connections
    /\ mainPc = "done" => semaphore = max_connections

C19_Enters ==
    \A k \in ThreadIds :
       (k \in TcpThreads /\ threads[k].pc = "acquire")
          ~> (k \in TcpThreads /\ threads[k].pc # "acquire")

Listening == srvPc \in {"accept", "recvfrom"}

C20_OfferAfterListen ==
    /\ offersSent > 0 => Listening
    /\ (mainPc = "start_tcp" /\ endpoint.server_ip = "server") => Listening
    /\ \A j \in 1..Len(offerIn) :
          offerIn[j].addr = "server" =>
             /\ UnpackOffer(offerIn[j].data.bytes).udp_port = srvPorts.udp_port
             /\ UnpackOffer(offerIn[j].data.bytes).tcp_port = srvPorts.tcp_port

====
